---- MODULE Spec2Model ----
(***************************************************************************)
(* A model of client/src/Utils.ts of the openHAB VS Code extension.        *)
(*                                                                         *)
(* JavaScript strings are sequences of one-character strings, so that      *)
(* includes, split, replace, trim and the regular expressions of the       *)
(* source are computed character by character.                             *)
(***************************************************************************)
EXTENDS Integers, Sequences, FiniteSets, TLC

VARIABLES
    config,        \* workspace.getConfiguration('openhab')
    hostPc,        \* "ready" before getHost is called, "returned" after
    hostUrl,       \* the value getHost returned
    str,           \* the argument of humanize
    humanized,     \* the value the last call of humanize returned
    humanizeCalls, \* 0: not called, 1: humanize(str), 2: humanize(humanize(str))
    restSite,      \* which of getRestHover, getSimpleModeState, getSitemaps was called
    restPc,        \* the call's position: idle, requested, fulfilled, failed, thrown, done
    requestUrl,    \* the URL handed to request()
    network,       \* how the request promise settled, with the body or the error
    promise,       \* the promise the call returned: its state and value
    settleCalls,   \* how many times resolve or reject of that promise was called
    resultText,    \* the MarkdownString of getRestHover, once created
    console,       \* the lines written with console.log
    activeTextEditor,     \* window.activeTextEditor and the text it has selected
    browserCalls,         \* the calls of openBrowser so far: argument, editor, selection
    launched,             \* the URLs handed to the 'vscode.open' command
    informationMessages,  \* how many times 'No editor is active' was shown
    hostCalls,            \* how many times openBrowser called getHost
    errorCalls,           \* the calls of handleRequestError so far
    settingsOpened,       \* how many times the workspace settings were opened
    useRestApi,           \* the configuration value openhab.useRestApi
    configUpdates,        \* how many times config.update was called
    extensionOutput,      \* the module's output channel: 0 is null
    channels,             \* the output channels created, each with its lines
    outputLog,            \* the messages passed to appendToOutput, in call order
    previewPanel          \* the arguments of the last PreviewPanel.createOrShow

hostVars == <<config, hostPc, hostUrl>>

humanizeVars == <<str, humanized, humanizeCalls>>

restVars ==
    <<restSite, restPc, requestUrl, network, promise, settleCalls, resultText, console>>

browserVars ==
    <<activeTextEditor, browserCalls, launched, informationMessages, hostCalls>>

errorVars == <<errorCalls, settingsOpened, useRestApi, configUpdates>>

outputVars == <<extensionOutput, channels, outputLog, previewPanel>>

vars == <<hostVars, humanizeVars, restVars, browserVars, errorVars, outputVars>>

(***************************************************************************)
(* JavaScript values and string primitives                                 *)
(***************************************************************************)

\* undefined / null for an optional string: no string of characters equals it
Undefined == <<"undefined">>

\* ToBoolean of an optional string: undefined, null and '' are falsy
Truthy(s) == s # Undefined /\ s # <<>>

\* x || ''
OrEmpty(s) == IF Truthy(s) THEN s ELSE <<>>

\* whether pat occurs in s at position i (1-based)
MatchesAt(s, pat, i) ==
    /\ i >= 1
    /\ i + Len(pat) - 1 <= Len(s)
    /\ \A k \in 1..Len(pat) : s[i + k - 1] = pat[k]

\* String.prototype.indexOf, 1-based, 0 when pat does not occur at or after from
IndexOf(s, pat, from) ==
    LET hits == {i \in from..(Len(s) - Len(pat) + 1) : MatchesAt(s, pat, i)}
    IN  IF hits = {} THEN 0 ELSE CHOOSE i \in hits : \A j \in hits : i <= j

\* String.prototype.includes
Includes(s, pat) == IndexOf(s, pat, 1) # 0

\* String.prototype.split with a non-empty separator: every occurrence splits
RECURSIVE Split(_, _)
Split(s, sep) ==
    LET i == IndexOf(s, sep, 1)
    IN  IF i = 0
        THEN <<s>>
        ELSE <<SubSeq(s, 1, i - 1)>> \o Split(SubSeq(s, i + Len(sep), Len(s)), sep)

\* Number-to-string conversion of a non-negative integer
DigitChar == <<"0", "1", "2", "3", "4", "5", "6", "7", "8", "9">>

RECURSIVE ToDecimal(_)
ToDecimal(n) ==
    IF n < 10
    THEN <<DigitChar[n + 1]>>
    ELSE ToDecimal(n \div 10) \o <<DigitChar[(n % 10) + 1]>>

(***************************************************************************)
(* getHost                                                                 *)
(***************************************************************************)

SchemeSep == <<":", "/", "/">>

DefaultProtocol == <<"h", "t", "t", "p">>

DefaultPort == 80

\* the host after the split of lines 54-58
HostPart(cfg) ==
    IF Includes(cfg.host, SchemeSep) THEN Split(cfg.host, SchemeSep)[2] ELSE cfg.host

\* the protocol after the split of lines 52-58
ProtocolPart(cfg) ==
    IF Includes(cfg.host, SchemeSep) THEN Split(cfg.host, SchemeSep)[1] ELSE DefaultProtocol

\* lines 60-61
Authentication(cfg) ==
    LET authentication ==
            OrEmpty(cfg.username)
                \o (IF Truthy(cfg.password) THEN <<":">> \o cfg.password ELSE <<>>)
    IN  authentication \o (IF authentication # <<>> THEN <<"@">> ELSE <<>>)

\* (port === 80 ? '' : ':' + port)
PortSuffix(cfg) ==
    IF cfg.port = DefaultPort THEN <<>> ELSE <<":">> \o ToDecimal(cfg.port)

getHost(cfg) ==
    ProtocolPart(cfg) \o SchemeSep \o Authentication(cfg) \o HostPart(cfg) \o PortSuffix(cfg)

\* the pieces a configured host is put together from
HostPieces == {<<"h">>, <<"s">>, <<":">>, <<"/">>, SchemeSep}

MaxHostPieces == 5

RECURSIVE Concatenations(_, _)
Concatenations(pieces, n) ==
    IF n = 0
    THEN {<<>>}
    ELSE LET shorter == Concatenations(pieces, n - 1)
         IN  shorter \cup {s \o p : s \in shorter, p \in pieces}

Hosts == Concatenations(HostPieces, MaxHostPieces)

Ports == {80, 443, 8080}

Usernames == {Undefined, <<>>, <<"u">>}

Passwords == {Undefined, <<>>, <<"p">>}

HostConfigs ==
    [host : Hosts, port : Ports, username : Usernames, password : Passwords]

DefaultConfig ==
    [host |-> <<"h">>, port |-> 8080, username |-> Undefined, password |-> Undefined]

HostIdle(cfg) ==
    /\ config = cfg
    /\ hostPc = "ready"
    /\ hostUrl = <<>>

GetHost ==
    /\ hostPc = "ready"
    /\ hostUrl' = getHost(config)
    /\ hostPc' = "returned"
    /\ UNCHANGED config

(***************************************************************************)
(* humanize                                                                *)
(***************************************************************************)

LowerChars == {"a", "i", "d"}

UpperChars == {"A", "I", "D"}

DigitChars == {"1"}

\* \s
SpaceChars == {" "}

toLowerCase(c) ==
    CASE c = "A" -> "a"
      [] c = "I" -> "i"
      [] c = "D" -> "d"
      [] OTHER -> c

toUpperCase(c) ==
    CASE c = "a" -> "A"
      [] c = "i" -> "I"
      [] c = "d" -> "D"
      [] OTHER -> c

\* String.prototype.toLowerCase
LowerCased(s) == [k \in 1..Len(s) |-> toLowerCase(s[k])]

\* String.prototype.trim
RECURSIVE trim(_)
trim(s) ==
    IF s = <<>> THEN s
    ELSE IF Head(s) \in SpaceChars THEN trim(Tail(s))
    ELSE IF s[Len(s)] \in SpaceChars THEN trim(SubSeq(s, 1, Len(s) - 1))
    ELSE s

\* .replace(/([a-z\d])([A-Z]+)/g, '$1_$2'): an underscore goes between a lower
\* case letter or digit and the run of capitals that follows it
RECURSIVE InsertBoundaries(_)
InsertBoundaries(s) ==
    IF Len(s) < 2 THEN s
    ELSE IF s[1] \in LowerChars \cup DigitChars /\ s[2] \in UpperChars
         THEN <<s[1], "_">> \o InsertBoundaries(Tail(s))
         ELSE <<s[1]>> \o InsertBoundaries(Tail(s))

\* .replace(/[-\s]+/g, '_'): every run of hyphens and white space becomes one
\* underscore
RECURSIVE CollapseDashSpace(_, _)
CollapseDashSpace(s, inRun) ==
    IF s = <<>> THEN <<>>
    ELSE IF Head(s) \in SpaceChars \cup {"-"}
         THEN (IF inRun THEN <<>> ELSE <<"_">>) \o CollapseDashSpace(Tail(s), TRUE)
         ELSE <<Head(s)>> \o CollapseDashSpace(Tail(s), FALSE)

IdSuffix == <<"_", "i", "d">>

\* .replace(/_id$/, '')
StripIdSuffix(s) ==
    IF Len(s) >= Len(IdSuffix) /\ MatchesAt(s, IdSuffix, Len(s) - Len(IdSuffix) + 1)
    THEN SubSeq(s, 1, Len(s) - Len(IdSuffix))
    ELSE s

UnderscoreToSpace(c) == IF c = "_" THEN " " ELSE c

\* .replace(/_/g, ' ')
UnderscoresToSpaces(s) == [k \in 1..Len(s) |-> UnderscoreToSpace(s[k])]

\* the first character is left as it is
upperFirstLeft(s) == s

\* _.upperFirst
upperFirst(s) == IF s = <<>> THEN s ELSE <<toUpperCase(Head(s))>> \o Tail(s)

\* the 'underscored' half of humanize, lines 27-33
underscored(s) ==
    LET trimmed    == trim(s)
        bounded    == InsertBoundaries(trimmed)
        collapsed  == CollapseDashSpace(bounded, FALSE)
        lowered    == LowerCased(collapsed)
        rebounded  == InsertBoundaries(lowered)
        stripped   == StripIdSuffix(rebounded)
    IN  UnderscoresToSpaces(stripped)

humanize(s) ==
    upperFirst(trim(UnderscoresToSpaces(StripIdSuffix(underscored(s)))))

HumanizeAlphabet == {"a", "i", "d", "A", "I", " ", "_", "-", "1"}

MaxStrLen == 4

Strings(alphabet, n) == UNION {[1..k -> alphabet] : k \in 0..n}

HumanizeIdle(s) ==
    /\ str = s
    /\ humanized = <<>>
    /\ humanizeCalls = 0

\* humanize(str), and then humanize of what it returned
Humanize ==
    /\ humanizeCalls < 2
    /\ humanized' = humanize(IF humanizeCalls = 0 THEN str ELSE humanized)
    /\ humanizeCalls' = humanizeCalls + 1
    /\ UNCHANGED str

(***************************************************************************)
(* getRestHover, getSimpleModeState, getSitemaps                           *)
(***************************************************************************)

\* a JavaScript value a promise settles with
JsVal(tag, items) == [tag |-> tag, items |-> items]

JsNull == JsVal("null", <<>>)

JsUndefined == JsVal("undefined", <<>>)

JsBool(b) == JsVal(IF b THEN "true" ELSE "false", <<>>)

JsArray(items) == JsVal("array", items)

\* new Hover(resultText)
Hover(blocks) == JsVal("Hover", blocks)

\* the error object request() rejected with
JsError(err) == JsVal("error", <<err>>)

\* the blocks MarkdownString collects
Codeblock(text) == [kind |-> "codeblock", text |-> text, language |-> "openhab"]

Markdown(text) == [kind |-> "markdown", text |-> text, language |-> ""]

Text(text) == [kind |-> "text", text |-> text, language |-> ""]

NoMarkdownString == [created |-> FALSE, blocks |-> <<>>]

NewMarkdownString(blocks) == [created |-> TRUE, blocks |-> blocks]

\* the template literal "Item ${item.name} | ${item.state}"
ItemLine(item) == <<"Item ", item.name, " | ", item.state>>

\* a newline after every member, the last one too
NewlineAfterEvery(length, key) == TRUE

\* line 96: whether the newline follows the member at index key
NewlineAfter(length, key) == ~(length - 1 = key)

\* lines 91-100: members.forEach, from index key on
RECURSIVE ForEachMember(_, _, _)
ForEachMember(blocks, members, key) ==
    IF key >= Len(members)
    THEN blocks
    ELSE ForEachMember(
            blocks \o <<Codeblock(ItemLine(members[key + 1]))>>
                   \o (IF NewlineAfter(Len(members), key) THEN <<Text(<<"\n">>)>> ELSE <<>>),
            members, key + 1)

\* the error field is not looked at
NoErrorUnchecked(result) == TRUE

\* if (!result.error): the error field is absent or falsy ('', null, 0, false)
NoError(result) == result.error \in {"absent", "falsy"}

\* what a then-callback did: whether it threw, how it settled the promise, the
\* MarkdownString it left and what it logged
Outcome(threw, settle, value, text, logged) ==
    [threw |-> threw, settle |-> settle, value |-> value, text |-> text, logged |-> logged]

Threw(text) == Outcome(TRUE, "none", JsUndefined, text, <<>>)

\* lines 78-118
HoverThen(body) ==
    IF body.json # "object"
    THEN Threw(NoMarkdownString)
    ELSE LET result == body.value IN
         IF NoError(result)
         THEN IF result.type = "Group"
              THEN LET head == <<Codeblock(ItemLine(result)), Markdown(<<"##### Members:">>)>> IN
                   IF ~result.hasMembers
                   THEN Threw(NewMarkdownString(head))
                   ELSE LET blocks == ForEachMember(head, result.members, 0)
                        IN  Outcome(FALSE, "resolved", Hover(blocks),
                                    NewMarkdownString(blocks), <<>>)
              ELSE LET blocks == <<Codeblock(<<result.state>>)>>
                   IN  Outcome(FALSE, "resolved", Hover(blocks),
                               NewMarkdownString(blocks), <<>>)
         ELSE Outcome(FALSE, "resolved", JsNull, NoMarkdownString, <<"no openHAB item">>)

\* lines 129-132
SimpleModeThen(body) ==
    IF body.json # "object"
    THEN Threw(NoMarkdownString)
    ELSE Outcome(FALSE, "resolved", body.value.autoLinks, NoMarkdownString, <<>>)

\* lines 142-144
SitemapsThen(body) ==
    IF body.json = "invalid"
    THEN Threw(NoMarkdownString)
    ELSE Outcome(FALSE, "resolved",
                 IF body.json = "null" THEN JsNull ELSE body.value, NoMarkdownString, <<>>)

ThenCallback(site, body) ==
    CASE site = "getRestHover" -> HoverThen(body)
      [] site = "getSimpleModeState" -> SimpleModeThen(body)
      [] site = "getSitemaps" -> SitemapsThen(body)

\* the catch callback passes the error on
CatchValuePassesError(site, err) == JsError(err)

\* the value each catch callback rejects with: lines 119, 132, 144
CatchValue(site, err) ==
    CASE site = "getRestHover" -> JsBool(FALSE)
      [] site = "getSimpleModeState" -> JsArray(<<>>)
      [] site = "getSitemaps" -> JsArray(<<>>)

\* resolve and reject act on a pending promise only
Settle(p, state, value) ==
    IF p.state = "pending" THEN [state |-> state, value |-> value] ELSE p

Sites == {"getRestHover", "getSimpleModeState", "getSitemaps"}

Path(site, hoveredText) ==
    CASE site = "getRestHover" -> <<"/rest/items/">> \o hoveredText
      [] site = "getSimpleModeState" ->
            <<"/rest/services/org.eclipse.smarthome.links/config">>
      [] site = "getSitemaps" -> <<"/rest/sitemaps">>

HoveredTexts == {<<"G">>, <<"A">>}

ItemNames == {"A", "B"}

ItemStates == {"ON", "OFF"}

MaxMembers == 3

Members == [name : ItemNames, state : ItemStates]

MemberSeqs == UNION {[1..n -> Members] : n \in 0..MaxMembers}

Items ==
    [error : {"absent", "falsy", "truthy"}, type : {"Group", "Switch"}, name : {"G"},
     state : ItemStates, hasMembers : {TRUE}, members : MemberSeqs]
    \cup
    [error : {"absent", "falsy", "truthy"}, type : {"Group", "Switch"}, name : {"G"},
     state : ItemStates, hasMembers : {FALSE}, members : {<<>>}]

LinkConfigs == [autoLinks : {JsBool(TRUE), JsBool(FALSE), JsUndefined}]

SitemapLists == {JsArray(<<>>), JsArray(<<[name |-> "home"]>>)}

\* what JSON.parse makes of a response body: it throws, or yields null or a value
Unparsed == {[json |-> "invalid", value |-> JsNull], [json |-> "null", value |-> JsNull]}

Bodies(site) ==
    Unparsed \cup
    CASE site = "getRestHover" -> [json : {"object"}, value : Items]
      [] site = "getSimpleModeState" -> [json : {"object"}, value : LinkConfigs]
      [] site = "getSitemaps" -> [json : {"array"}, value : SitemapLists]

\* the errors request() rejects with: no connection, or a status other than 2xx
RequestErrors == {"RequestError", "StatusCodeError"}

NotCalled == [outcome |-> "none"]

RestIdle ==
    /\ restSite = "none"
    /\ restPc = "idle"
    /\ requestUrl = <<>>
    /\ network = NotCalled
    /\ promise = [state |-> "pending", value |-> JsUndefined]
    /\ settleCalls = 0
    /\ resultText = NoMarkdownString
    /\ console = <<>>

\* the synchronous part of the three functions: the promise is created and the
\* request is sent
CallRest(site, hoveredText) ==
    /\ restPc = "idle"
    /\ restSite' = site
    /\ requestUrl' = getHost(config) \o Path(site, hoveredText)
    /\ console' = IF site = "getRestHover"
                  THEN console \o <<"Requesting">>
                  ELSE console
    /\ restPc' = "requested"
    /\ UNCHANGED <<network, promise, settleCalls, resultText>>

\* the request promise is fulfilled with a response body
RequestFulfilled(body) ==
    /\ restPc = "requested"
    /\ body \in Bodies(restSite)
    /\ network' = [outcome |-> "fulfilled", body |-> body]
    /\ restPc' = "fulfilled"
    /\ UNCHANGED <<restSite, requestUrl, promise, settleCalls, resultText, console>>

\* the request promise is rejected
RequestRejected(err) ==
    /\ restPc = "requested"
    /\ network' = [outcome |-> "rejected", error |-> err]
    /\ restPc' = "failed"
    /\ UNCHANGED <<restSite, requestUrl, promise, settleCalls, resultText, console>>

\* the .then callback runs
RunThen ==
    /\ restPc = "fulfilled"
    /\ LET did == ThenCallback(restSite, network.body) IN
        /\ resultText' = did.text
        /\ console' = console \o did.logged
        /\ promise' = IF did.settle = "none" THEN promise
                      ELSE Settle(promise, did.settle, did.value)
        /\ settleCalls' = IF did.settle = "none" THEN settleCalls ELSE settleCalls + 1
        /\ restPc' = IF did.threw THEN "thrown" ELSE "done"
    /\ UNCHANGED <<restSite, requestUrl, network>>

\* the .catch callback runs: the request was rejected, or the .then callback threw
RunCatch ==
    /\ restPc \in {"failed", "thrown"}
    /\ promise' = Settle(promise, "rejected",
                         CatchValue(restSite,
                                    IF restPc = "failed" THEN network.error ELSE "thrown"))
    /\ settleCalls' = settleCalls + 1
    /\ restPc' = "done"
    /\ UNCHANGED <<restSite, requestUrl, network, resultText, console>>

(***************************************************************************)
(* openBrowser                                                             *)
(***************************************************************************)

\* the replacement text of String.prototype.replace: $$ is a dollar sign, $& the
\* matched text, $ with a grave accent the text before the match and $ with an
\* apostrophe the text after it; any other $ stands for itself
GraveAccent == "U+0060"

Apostrophe == "U+0027"

RECURSIVE GetSubstitution(_, _, _, _)
GetSubstitution(replacement, matched, before, after) ==
    IF replacement = <<>> THEN <<>>
    ELSE IF Head(replacement) = "$" /\ Len(replacement) >= 2
              /\ replacement[2] \in {"$", "&", GraveAccent, Apostrophe}
         THEN (CASE replacement[2] = "$" -> <<"$">>
                 [] replacement[2] = "&" -> matched
                 [] replacement[2] = GraveAccent -> before
                 [] replacement[2] = Apostrophe -> after)
              \o GetSubstitution(SubSeq(replacement, 3, Len(replacement)),
                                 matched, before, after)
         ELSE <<Head(replacement)>>
              \o GetSubstitution(Tail(replacement), matched, before, after)

\* String.prototype.replace with a string pattern: the first occurrence only
replace(s, pattern, replacement) ==
    LET i == IndexOf(s, pattern, 1) IN
    IF i = 0 THEN s
    ELSE LET before == SubSeq(s, 1, i - 1)
             after  == SubSeq(s, i + Len(pattern), Len(s))
         IN  before \o GetSubstitution(replacement, pattern, before, after) \o after

\* String.prototype.startsWith
startsWith(s, prefix) == MatchesAt(s, prefix, 1)

Token == <<"%", "s">>

EscapedSpace == <<"%", "2", "0">>

\* line 162
AbsoluteUrl(url, cfg) == IF startsWith(url, DefaultProtocol) THEN url ELSE getHost(cfg) \o url

\* lines 162-163: the URL openBrowser opens
BrowserUrl(url, text, cfg) ==
    replace(AbsoluteUrl(url, cfg), Token, replace(text, <<" ">>, EscapedSpace))

NoEditor == [open |-> FALSE, selection |-> <<>>]

\* the check for an editor is left out
EditorNeverMissing(editor) == FALSE

\* line 155: if (!editor)
EditorMissing(editor) == ~editor.open

\* the url arguments openBrowser is called with
UrlArguments ==
    { <<"/", "a", "?", "%", "s">>,
      <<"/", "a">>,
      <<"%", "s", "%", "s">>,
      <<"h", "t", "t", "p", "s", ":", "/", "/", "x", "/", "%", "s">>,
      <<"h", "t", "t", "p", "%", "s">> }

TextAlphabet == {"m", " ", "$", "&"}

MaxTextLen == 2

MaxBrowserCalls == 2

BrowserConfigs ==
    { DefaultConfig,
      [host |-> <<"s", ":", "/", "/", "h">>, port |-> 80,
       username |-> <<"u">>, password |-> <<"p">>] }

BrowserIdle(editor) ==
    /\ activeTextEditor = editor
    /\ browserCalls = <<>>
    /\ launched = <<>>
    /\ informationMessages = 0
    /\ hostCalls = 0

\* lines 153-165
OpenBrowser(url) ==
    /\ Len(browserCalls) < MaxBrowserCalls
    /\ browserCalls' = Append(browserCalls,
            [url |-> url, editor |-> activeTextEditor.open,
             selection |-> activeTextEditor.selection])
    /\ IF EditorMissing(activeTextEditor)
       THEN /\ informationMessages' = informationMessages + 1
            /\ UNCHANGED <<launched, hostCalls>>
       ELSE /\ launched' = Append(launched,
                                  BrowserUrl(url, activeTextEditor.selection, config))
            /\ hostCalls' = IF startsWith(url, DefaultProtocol)
                            THEN hostCalls
                            ELSE hostCalls + 1
            /\ UNCHANGED informationMessages
    /\ UNCHANGED activeTextEditor

\* the user leaves the editor, or comes back to it with the same selection
SwitchEditor ==
    /\ activeTextEditor' = [activeTextEditor EXCEPT !.open = ~@]
    /\ UNCHANGED <<browserCalls, launched, informationMessages, hostCalls>>

(***************************************************************************)
(* handleRequestError                                                      *)
(***************************************************************************)

setHost == "Set openHAB host"

disableRest == "Disable REST API"

\* window.showErrorMessage resolves to the item chosen, or to undefined when the
\* message is dismissed
Choices == {setHost, disableRest, "undefined"}

\* err.error is a string, an object with or without a message, or missing
Errs ==
    [error : {"string"}, text : {<<>>, <<"m">>}]
    \cup [error : {"object"}, text : {Undefined, <<>>, <<"m">>}]
    \cup [error : {"undefined"}, text : {Undefined}]

\* line 194: typeof err.error === 'string' ? err.error : err.error.message
\* throws a TypeError when err.error is undefined
MessageThrows(err) == err.error = "undefined"

\* line 195: the text of the error message
ErrorMessage(err) == <<"Error while connecting to openHAB REST API. ">> \o OrEmpty(err.text)

\* a switch whose first case falls through to the second
FollowUpFallsThrough(result) ==
    CASE result = setHost -> [open |-> 1, update |-> 1]
      [] result = disableRest -> [open |-> 0, update |-> 1]
      [] OTHER -> [open |-> 0, update |-> 0]

\* lines 196-205: what the switch does with the user's answer
FollowUp(result) ==
    CASE result = setHost -> [open |-> 1, update |-> 0]
      [] result = disableRest -> [open |-> 0, update |-> 1]
      [] OTHER -> [open |-> 0, update |-> 0]

MaxErrorCalls == 3

ErrorIdle ==
    /\ errorCalls = <<>>
    /\ settingsOpened = 0
    /\ useRestApi = TRUE
    /\ configUpdates = 0

\* lines 190-195, up to the await
HandleRequestError(err) ==
    /\ Len(errorCalls) < MaxErrorCalls
    /\ errorCalls' = Append(errorCalls,
            IF MessageThrows(err)
            THEN [pc |-> "rejected", message |-> <<>>, result |-> "none",
                  opened |-> 0, updated |-> 0]
            ELSE [pc |-> "awaiting", message |-> ErrorMessage(err), result |-> "none",
                  opened |-> 0, updated |-> 0])
    /\ UNCHANGED <<settingsOpened, useRestApi, configUpdates>>

\* lines 196-205: the user answers the message of call i and the switch runs
AnswerErrorMessage(i, result) ==
    /\ i \in 1..Len(errorCalls)
    /\ errorCalls[i].pc = "awaiting"
    /\ LET do == FollowUp(result) IN
        /\ settingsOpened' = settingsOpened + do.open
        /\ configUpdates' = configUpdates + do.update
        /\ useRestApi' = IF do.update > 0 THEN FALSE ELSE useRestApi
        /\ errorCalls' = [errorCalls EXCEPT ![i].pc = "done", ![i].result = result,
                                            ![i].opened = @ + do.open,
                                            ![i].updated = @ + do.update]

(***************************************************************************)
(* appendToOutput and openUI                                               *)
(***************************************************************************)

\* a channel is created on every call
NeedsChannelAlways(output) == TRUE

\* line 216: whether a channel has to be created
NeedsChannel(output) == output = 0

\* lines 214-219 as a function of the state: the handle and the channels after
\* the call
AppendedOutput(output, chans, message) ==
    LET created == IF NeedsChannel(output) THEN Append(chans, <<>>) ELSE chans
        handle  == IF NeedsChannel(output) THEN Len(created) ELSE output
    IN  [extensionOutput |-> handle,
         channels |-> [created EXCEPT ![handle] = Append(@, message)]]

Messages == {<<"a">>, <<"b">>}

DefaultQuery == <<"/basicui/app">>

Queries == {DefaultQuery, <<"/p">>}

Titles == {Undefined, <<"t">>}

MaxOutputCalls == 4

NoPanel == [title |-> Undefined, src |-> <<>>]

OutputIdle ==
    /\ extensionOutput = 0
    /\ channels = <<>>
    /\ outputLog = <<>>
    /\ previewPanel = NoPanel

\* lines 214-219
AppendToOutput(message) ==
    /\ Len(outputLog) < MaxOutputCalls
    /\ LET after == AppendedOutput(extensionOutput, channels, message) IN
        /\ extensionOutput' = after.extensionOutput
        /\ channels' = after.channels
    /\ outputLog' = Append(outputLog, message)
    /\ UNCHANGED previewPanel

\* lines 174-183
OpenUI(query, title) ==
    /\ Len(outputLog) < MaxOutputCalls
    /\ LET srcPath == getHost(config) \o query
           message == <<"URL that will be opened is: ">> \o srcPath
           after   == AppendedOutput(extensionOutput, channels, message)
       IN  /\ extensionOutput' = after.extensionOutput
           /\ channels' = after.channels
           /\ outputLog' = Append(outputLog, message)
           /\ previewPanel' = [title |-> title, src |-> srcPath]

(***************************************************************************)
(* Specifications: one per group of operations. The groups share no state  *)
(* but the configuration, which none of them writes.                       *)
(***************************************************************************)

\* getHost over the configurations
InitHost ==
    /\ \E cfg \in HostConfigs : HostIdle(cfg)
    /\ HumanizeIdle(<<>>)
    /\ RestIdle
    /\ BrowserIdle(NoEditor)
    /\ ErrorIdle
    /\ OutputIdle

NextHost ==
    GetHost /\ UNCHANGED <<humanizeVars, restVars, browserVars, errorVars, outputVars>>

SpecHost == InitHost /\ [][NextHost]_vars

\* humanize over the strings
InitHumanize ==
    /\ HostIdle(DefaultConfig)
    /\ \E s \in Strings(HumanizeAlphabet, MaxStrLen) : HumanizeIdle(s)
    /\ RestIdle
    /\ BrowserIdle(NoEditor)
    /\ ErrorIdle
    /\ OutputIdle

NextHumanize ==
    Humanize /\ UNCHANGED <<hostVars, restVars, browserVars, errorVars, outputVars>>

SpecHumanize == InitHumanize /\ [][NextHumanize]_vars

\* one call of getRestHover, getSimpleModeState or getSitemaps
InitRest ==
    /\ HostIdle(DefaultConfig)
    /\ HumanizeIdle(<<>>)
    /\ RestIdle
    /\ BrowserIdle(NoEditor)
    /\ ErrorIdle
    /\ OutputIdle

notRest == <<hostVars, humanizeVars, browserVars, errorVars, outputVars>>

NextRest ==
    \/ \E site \in Sites, hoveredText \in HoveredTexts :
            CallRest(site, hoveredText) /\ UNCHANGED notRest
    \/ \E body \in UNION {Bodies(site) : site \in Sites} :
            RequestFulfilled(body) /\ UNCHANGED notRest
    \/ \E err \in RequestErrors : RequestRejected(err) /\ UNCHANGED notRest
    \/ RunThen /\ UNCHANGED notRest
    \/ RunCatch /\ UNCHANGED notRest

SpecRest == InitRest /\ [][NextRest]_vars

\* openBrowser, with the editor coming and going
InitBrowser ==
    /\ \E cfg \in BrowserConfigs : HostIdle(cfg)
    /\ HumanizeIdle(<<>>)
    /\ RestIdle
    /\ \E text \in Strings(TextAlphabet, MaxTextLen), open \in BOOLEAN :
            BrowserIdle([open |-> open, selection |-> text])
    /\ ErrorIdle
    /\ OutputIdle

notBrowser == <<hostVars, humanizeVars, restVars, errorVars, outputVars>>

NextBrowser ==
    \/ \E url \in UrlArguments : OpenBrowser(url) /\ UNCHANGED notBrowser
    \/ SwitchEditor /\ UNCHANGED notBrowser

SpecBrowser == InitBrowser /\ [][NextBrowser]_vars

\* handleRequestError and the user's answers
InitError ==
    /\ HostIdle(DefaultConfig)
    /\ HumanizeIdle(<<>>)
    /\ RestIdle
    /\ BrowserIdle(NoEditor)
    /\ ErrorIdle
    /\ OutputIdle

notError == <<hostVars, humanizeVars, restVars, browserVars, outputVars>>

NextError ==
    \/ \E err \in Errs : HandleRequestError(err) /\ UNCHANGED notError
    \/ \E i \in 1..MaxErrorCalls, result \in Choices :
            AnswerErrorMessage(i, result) /\ UNCHANGED notError

SpecError == InitError /\ [][NextError]_vars

\* appendToOutput and openUI
InitOutput ==
    /\ \E cfg \in BrowserConfigs : HostIdle(cfg)
    /\ HumanizeIdle(<<>>)
    /\ RestIdle
    /\ BrowserIdle(NoEditor)
    /\ ErrorIdle
    /\ OutputIdle

notOutput == <<hostVars, humanizeVars, restVars, browserVars, errorVars>>

NextOutput ==
    \/ \E message \in Messages : AppendToOutput(message) /\ UNCHANGED notOutput
    \/ \E query \in Queries, title \in Titles : OpenUI(query, title) /\ UNCHANGED notOutput

SpecOutput == InitOutput /\ [][NextOutput]_vars

(***************************************************************************)
(* The claims                                                              *)
(***************************************************************************)

\* C1 (as claimed): with a falsy username the URL getHost returns has no
\* authentication segment, whatever the password is: it is exactly
\* protocol + "://" + host + port suffix.
C1_NoAuthWithoutUsername ==
    (hostPc = "returned" /\ ~Truthy(config.username))
        => hostUrl = ProtocolPart(config) \o SchemeSep \o HostPart(config) \o PortSuffix(config)

\* the text left of the first "://" of s, and the text right of it
LeftOfFirst(s, sep) == SubSeq(s, 1, IndexOf(s, sep, 1) - 1)

RightOfFirst(s, sep) == SubSeq(s, IndexOf(s, sep, 1) + Len(sep), Len(s))

\* C2 (as claimed): a configured host that contains "://" is split at the first
\* occurrence only, so the URL is left + "://" + authentication + right + port
\* suffix and no character right of the first "://" is lost.
C2_SplitAtFirstOnly ==
    (hostPc = "returned" /\ Includes(config.host, SchemeSep))
        => hostUrl = LeftOfFirst(config.host, SchemeSep) \o SchemeSep \o Authentication(config)
                        \o RightOfFirst(config.host, SchemeSep) \o PortSuffix(config)

\* getRestHover ran its then-callback on a parsed item
HoverAnswered ==
    /\ restSite = "getRestHover"
    /\ restPc = "done"
    /\ network.outcome = "fulfilled"
    /\ network.body.json = "object"

\* ... which is a Group with at least one member and no error field
GroupAnswered ==
    /\ HoverAnswered
    /\ network.body.value.error = "absent"
    /\ network.body.value.type = "Group"
    /\ network.body.value.hasMembers
    /\ Len(network.body.value.members) >= 1

\* C3: for a Group with n >= 1 members and no error field the hover document is
\* the group's code block, the heading "Members:", then one code block per member
\* in the order of the members, with a line break after every member block but
\* the last: n - 1 separators, none of them at the end.
C3_GroupHoverDocument ==
    GroupAnswered =>
        LET group   == network.body.value
            members == group.members
            n       == Len(members)
            doc     == promise.value.items
        IN  /\ promise.state = "resolved"
            /\ promise.value.tag = "Hover"
            /\ Len(doc) = 2 + n + (n - 1)
            /\ doc[1] = Codeblock(<<"Item ", group.name, " | ", group.state>>)
            /\ doc[2] = Markdown(<<"##### Members:">>)
            /\ \A i \in 1..n :
                 doc[2 * i + 1] = Codeblock(<<"Item ", members[i].name, " | ", members[i].state>>)
            /\ \A i \in 1..(n - 1) : doc[2 * i + 2] = Text(<<"\n">>)
            /\ Cardinality({k \in 1..Len(doc) : doc[k].kind = "text"}) = n - 1
            /\ doc[Len(doc)].kind # "text"

C3_Witness ==
    /\ GroupAnswered
    /\ Len(network.body.value.members) = 2
    /\ network.body.value.members[1] # network.body.value.members[2]

\* what the claim says of a response that is taken for "not found": no document is
\* built, and the promise is resolved with null by the one call that settles it
ResolvedToNoDocument ==
    /\ ~resultText.created
    /\ promise = [state |-> "resolved", value |-> JsNull]
    /\ settleCalls = 1

\* C4 (as claimed): whenever the parsed response carries an error field, no hover
\* document is built and the promise resolves to null; it is never rejected.
C4_AnyErrorFieldResolvesNull ==
    (HoverAnswered /\ network.body.value.error # "absent") => ResolvedToNoDocument

\* C4 (amended): whenever the parsed response carries an error field with a truthy
\* value (a non-empty string, an object), no hover document is built and the
\* promise resolves to null; it is never rejected.
C4_TruthyErrorResolvesNull ==
    (HoverAnswered /\ network.body.value.error = "truthy") => ResolvedToNoDocument

C4_Witness ==
    /\ HoverAnswered
    /\ network.body.value.error = "truthy"
    /\ network.body.value.type = "Group"
    /\ promise.state = "resolved"

\* the request of the call was rejected and the catch-callback has run
TransportFailed ==
    /\ restPc = "done"
    /\ network.outcome = "rejected"

\* C5: when the network call rejects, getRestHover, getSimpleModeState and
\* getSitemaps each settle the returned promise exactly once, with a value fixed
\* for the call site (false, an empty sequence, an empty sequence) that carries
\* nothing of the error; the promise is not left pending. The promise is settled
\* by rejection.
C5_TransportFailureSentinel ==
    /\ settleCalls <= 1
    /\ (restPc = "failed") => (promise.state = "pending" /\ settleCalls = 0)
    /\ TransportFailed =>
        /\ settleCalls = 1
        /\ promise.state = "rejected"
        /\ promise.value.tag \in {"array", "false", "null"}
        /\ promise.value.items = <<>>
        /\ promise.value.tag =
              (CASE restSite = "getRestHover" -> "false"
                 [] restSite = "getSimpleModeState" -> "array"
                 [] restSite = "getSitemaps" -> "array")

C5_Witness ==
    /\ TransportFailed
    /\ restSite = "getSimpleModeState"
    /\ network.error = "StatusCodeError"
    /\ promise.state = "rejected"

\* a single leading capital, then lower-case words separated by single spaces
IsHumanized(x) ==
    /\ Len(x) >= 1
    /\ x[1] \in UpperChars
    /\ x[Len(x)] # " "
    /\ \A k \in 2..Len(x) : x[k] \in LowerChars \cup {" "}
    /\ \A k \in 2..(Len(x) - 1) : ~(x[k] = " " /\ x[k + 1] = " ")

EndsWith(x, suffix) ==
    Len(x) >= Len(suffix) /\ MatchesAt(x, suffix, Len(x) - Len(suffix) + 1)

\* C6 (as claimed): for every already-humanized x, humanize(x) = x and
\* humanize(humanize(x)) = x, also when the last word of x is "id".
C6_IdempotentOnHumanized ==
    (humanizeCalls >= 1 /\ IsHumanized(str)) => humanized = str

\* C6 (amended): for every already-humanized x that does not end with " id" (a
\* last word "id" after another word), humanize(x) = x and humanize(humanize(x)) = x.
C6_IdempotentUnlessLastWordId ==
    (humanizeCalls >= 1 /\ IsHumanized(str) /\ ~EndsWith(str, <<" ", "i", "d">>))
        => humanized = str

C6_Witness ==
    /\ humanizeCalls = 2
    /\ IsHumanized(str)
    /\ Includes(str, <<" ">>)
    /\ humanized = str

\* s with the first occurrence of pattern replaced by the text itself
ReplaceFirstWith(s, pattern, text) ==
    LET i == IndexOf(s, pattern, 1) IN
    IF i = 0 THEN s
    ELSE SubSeq(s, 1, i - 1) \o text \o SubSeq(s, i + Len(pattern), Len(s))

\* how many of the first i calls of openBrowser found an editor
WithEditor(i) == Cardinality({k \in 1..i : browserCalls[k].editor})

\* C7 (as claimed): a url that begins with "http" is used as given, any other is
\* appended to the base URL of getHost; "%s" in the result is then replaced by the
\* selected text in which the first space, and only the first, is "%20".
C7_UrlWithSelection ==
    \A i \in 1..Len(browserCalls) :
        browserCalls[i].editor =>
            LET call == browserCalls[i]
                url  == IF startsWith(call.url, <<"h", "t", "t", "p">>)
                        THEN call.url
                        ELSE getHost(config) \o call.url
                text == ReplaceFirstWith(call.selection, <<" ">>, <<"%", "2", "0">>)
            IN  launched[WithEditor(i)] = ReplaceFirstWith(url, <<"%", "s">>, text)

\* C8: a call of openBrowser without an active editor shows the notice and does
\* nothing else: it launches no browser and resolves no URL; a call with an
\* active editor launches the browser, also after calls that were aborted.
C8_NoEditorAborts ==
    LET n       == Len(browserCalls)
        aborted == {k \in 1..n : ~browserCalls[k].editor}
        resolved == {k \in 1..n : browserCalls[k].editor
                                    /\ ~startsWith(browserCalls[k].url, <<"h", "t", "t", "p">>)}
    IN  /\ informationMessages = Cardinality(aborted)
        /\ Len(launched) = n - Cardinality(aborted)
        /\ hostCalls = Cardinality(resolved)

C8_Witness ==
    /\ \E i, j \in 1..Len(browserCalls) :
            i < j /\ ~browserCalls[i].editor /\ browserCalls[j].editor
    /\ informationMessages >= 1
    /\ Len(launched) >= 1

RECURSIVE Sum(_, _)
Sum(calls, field) ==
    IF calls = <<>> THEN 0 ELSE Head(calls)[field] + Sum(Tail(calls), field)

\* C9: a call of handleRequestError performs at most one follow-up action, and
\* none before the user has answered: the first choice ("Set openHAB host") opens
\* the workspace settings and leaves useRestApi alone, "Disable REST API" sets
\* useRestApi to false and does not open the settings, a dismissed message does
\* neither.
C9_OneFollowUpPerAnswer ==
    /\ \A i \in 1..Len(errorCalls) :
        LET call == errorCalls[i] IN
        /\ call.opened + call.updated <= 1
        /\ call.pc # "done" => (call.opened = 0 /\ call.updated = 0)
        /\ call.pc = "done" =>
            /\ call.opened = (IF call.result = "Set openHAB host" THEN 1 ELSE 0)
            /\ call.updated = (IF call.result = "Disable REST API" THEN 1 ELSE 0)
    /\ settingsOpened = Sum(errorCalls, "opened")
    /\ configUpdates = Sum(errorCalls, "updated")
    /\ useRestApi = (\A i \in 1..Len(errorCalls) : errorCalls[i].result # "Disable REST API")

C9_Witness ==
    /\ \E i, j, k \in 1..Len(errorCalls) :
        /\ errorCalls[i].result = "Set openHAB host"
        /\ errorCalls[j].result = "undefined"
        /\ errorCalls[k].pc = "awaiting"
    /\ settingsOpened = 1
    /\ useRestApi

\* C10: over any sequence of appendToOutput and openUI calls at most one output
\* channel is created, by the first call; every later call uses that channel, and
\* the channel holds every message in call order.
C10_OneOutputChannel ==
    /\ Len(channels) <= 1
    /\ outputLog = <<>> => (extensionOutput = 0 /\ channels = <<>>)
    /\ outputLog # <<>> =>
        (extensionOutput = 1 /\ Len(channels) = 1 /\ channels[1] = outputLog)

C10_Witness ==
    /\ Len(outputLog) >= 3
    /\ outputLog[1] \in Messages
    /\ previewPanel # NoPanel
    /\ channels[1] = outputLog

====
